---- MODULE Spec2Model ----
(***************************************************************************)
(* DocuChat-AI: the document registry, the background ingestion task, the  *)
(* per-document RAG service map, the query endpoint and the websocket      *)
(* status notifier, as one asyncio event loop.                             *)
(*                                                                         *)
(* The event loop runs one coroutine at a time: `cur` names the background *)
(* task that holds the loop (0 when the loop is free).  A coroutine gives  *)
(* the loop back only at an await that really suspends: a websocket send   *)
(* that succeeded and asyncio.sleep.  The endpoints of documents.py and    *)
(* queries.py contain no such await and are single steps.                  *)
(***************************************************************************)
EXTENDS Integers, Sequences, FiniteSets, TLC

\* ---------------------------------------------------------------- bounds
NumDocs == 2        \* documents ever uploaded (SpecDocs)
MaxUploads == 1     \* documents uploaded while a websocket client is there (Spec)
MaxTasks == 2       \* ingestion runs ever scheduled
NumSockets == 1     \* websocket clients, with every endpoint in use (Spec)
MaxObservers == 2   \* websocket clients of one ingestion run (SpecNotify)
MaxImages == 1      \* images in an uploaded PDF
MaxUnits == 2       \* texts, tables, images of the PDF of one ingestion (SpecIngest)
MaxHits == 3        \* hits of one similarity search
MaxK == 2           \* max_results of a query

Docs == 1..NumDocs          \* document ids (uuid4 values, never issued twice)
Tids == 1..MaxTasks         \* background tasks
Sockets == 1..MaxObservers  \* websocket connections

\* ------------------------------------------------------- ProcessingStatus
PENDING == "pending"
PROCESSING == "processing"
COMPLETED == "completed"
FAILED == "failed"
ProcessingStatus == {PENDING, PROCESSING, COMPLETED, FAILED}

None == "None"
NoCount == [texts |-> -1, tables |-> -1, images |-> -1]   \* elements_count = None
NoFile == [texts |-> 0, tables |-> 0, images |-> 0]

\* the most writes one build_vector_database makes
MaxWrites == 4 + 2 * MaxUnits

\* config.py, the processing limits
MAX_IMAGES_PER_REQUEST == 15
RATE_LIMIT_DELAY == 4

\* The uploaded PDFs, each given by what partition_pdf extracts from it.
Files == {[texts |-> i + 1, tables |-> i, images |-> i] : i \in 0..MaxImages}

VARIABLES
    document_store,      \* shared_store.document_store: id -> document info
    rag_services,        \* shared_store.rag_services: id -> RAGService
    collections,         \* Qdrant collections doc_<id>
    active_connections,  \* manager.active_connections: id -> list of websockets
    tasks,               \* the process_document_background coroutines
    sockets,             \* the websocket_endpoint coroutines and their clients
    published,           \* per id, the status last handed to broadcast_status_update
    issued,              \* ids handed out by upload_document
    images_folder,       \* settings.IMAGES_FOLDER: id -> files of the folder <id>
    cur                  \* the task holding the event loop, 0 if none

vars == <<document_store, rag_services, collections, active_connections,
          tasks, sockets, published, issued, images_folder, cur>>

\* ---------------------------------------------------------------- helpers
Range(s) == {s[i] : i \in 1..Len(s)}

Last(s) == s[Len(s)]

\* list.remove(x): removes the first occurrence of x
RECURSIVE ListRemove(_, _)
ListRemove(s, x) ==
    IF s = <<>> THEN <<>>
    ELSE IF Head(s) = x THEN Tail(s)
    ELSE <<Head(s)>> \o ListRemove(Tail(s), x)

\* del mapping[key]
DelKey(f, k) == [x \in (DOMAIN f) \ {k} |-> f[x]]

\* mapping[key] = value
SetKey(f, k, v) == [x \in (DOMAIN f) \cup {k} |-> IF x = k THEN v ELSE f[x]]

Registered == DOMAIN document_store

\* ------------------------------------------------------------- error text
\* str(e) of the exceptions the ingestion can end with, outermost prefix first.
KeyErrorMsg == <<"KeyError">>
ValueErrorMsg == <<"list.remove(x): x not in list">>
ModelInitError == <<"Model initialization failed", "setup_models error">>
ExtractError == <<"Processing failed", "partition_pdf error">>
SummaryError == <<"Processing failed", "summarization error">>
StoreSetupError == <<"Vector store setup failed", "qdrant error">>
BuildError == <<"Vector database build failed", "add_documents error">>
BuildIndexError == <<"Vector database build failed", "list index out of range">>

\* ------------------------------------------------------------- responses
Resp(op, d, code, status, answer, message, sources, images, conf, invoked) ==
    [op |-> op, doc |-> d, code |-> code, status |-> status, answer |-> answer,
     message |-> message, sources |-> sources, related_images |-> images,
     confidence_score |-> conf, invoked |-> invoked]

NotFound(op, d) == Resp(op, d, 404, None, "", "Document not found", <<>>, <<>>, 0, FALSE)

\* --------------------------------------------------------------- records
NoBc == [idx |-> 0, disconnected |-> <<>>, orphan |-> FALSE, pending |-> {},
         data |-> None]

NewTask == [pc |-> "unused", doc |-> 0, file |-> NoFile, ret |-> "", bc |-> NoBc,
            img |-> 0, exc |-> <<>>, handling |-> FALSE, raised |-> None,
            ran |-> <<>>, outcome |-> None,
            image_descriptions |-> <<>>, image_metadata |-> <<>>,
            text_summaries |-> <<>>, table_summaries |-> <<>>,
            store |-> {}, faults |-> {}, pauses |-> <<>>]

NewSocket == [pc |-> "idle", doc |-> 0, last_status |-> None,
              current_status |-> None, open |-> FALSE, recv |-> None]

Init ==
    /\ document_store = <<>>
    /\ rag_services = <<>>
    /\ collections = <<>>
    /\ active_connections = <<>>
    /\ tasks = [t \in Tids |-> NewTask]
    /\ sockets = [w \in Sockets |-> NewSocket]
    /\ published = [d \in Docs |-> None]
    /\ issued = {}
    /\ images_folder = <<>>
    /\ cur = 0

\* =================================================================
\* documents.py and queries.py: the endpoints (no suspending await inside)
\* =================================================================

\* uuid.uuid4(): an id no earlier upload was given
FreshId == CHOOSE d \in Docs \ issued : \A e \in Docs \ issued : d <= e

\* upload_document storing the entry of a finished document
upload_document_as_completed(f, valid) ==
    /\ cur = 0
    /\ IF ~valid
       THEN UNCHANGED <<document_store, issued>>
       ELSE /\ issued # Docs
            /\ document_store' = SetKey(document_store, FreshId,
                   [file |-> f, status |-> PENDING, processing_time |-> "elapsed",
                    elements_count |-> f, error_message |-> <<>>])
            /\ issued' = issued \cup {FreshId}
    /\ UNCHANGED <<rag_services, collections, active_connections, tasks, sockets,
                   published, images_folder, cur>>

\* documents.py upload_document; valid = the checks of lines 92-96 passed
upload_document(f, valid) ==
    /\ cur = 0
    /\ IF ~valid
       THEN UNCHANGED <<document_store, issued>>
       ELSE /\ issued # Docs
            /\ document_store' = SetKey(document_store, FreshId,
                   [file |-> f, status |-> PENDING, processing_time |-> None,
                    elements_count |-> NoCount, error_message |-> <<>>])
            /\ issued' = issued \cup {FreshId}
    /\ UNCHANGED <<rag_services, collections, active_connections, tasks, sockets,
                   published, images_folder, cur>>

\* The message of the ProcessingResponse of process_document
ProcessMessage(already, status) ==
    IF already /\ status = PROCESSING
    THEN "Document is already being processed. You'll be notified when it's ready."
    ELSE IF already /\ status = COMPLETED
    THEN "Document has already been processed and is ready for queries."
    ELSE "Document processing has started. This usually takes 1-2 minutes. You can check the status or wait for completion notification."

\* background_tasks.add_task: the first task slot not yet used
FreeTid == CHOOSE t \in Tids : tasks[t].pc = "unused" /\
                               \A u \in Tids : tasks[u].pc = "unused" => t <= u

\* documents.py process_document: what the call returns
ProcessResponse(d) ==
    IF d \notin Registered THEN NotFound("process", d)
    ELSE IF document_store[d].status \in {PROCESSING, COMPLETED}
    THEN Resp("process", d, 200, document_store[d].status, "",
              ProcessMessage(TRUE, document_store[d].status), <<>>, <<>>, 0, FALSE)
    ELSE Resp("process", d, 200, PROCESSING, "", ProcessMessage(FALSE, PROCESSING),
              <<>>, <<>>, 0, FALSE)

\* process_document without the check of line 137
process_document_unknown_id(d) ==
    /\ cur = 0
    /\ IF d \in Registered /\ document_store[d].status \in {PROCESSING, COMPLETED}
       THEN UNCHANGED <<document_store, tasks>>
       ELSE /\ \E t \in Tids : tasks[t].pc = "unused"
            /\ tasks' = [tasks EXCEPT ![FreeTid] =
                            [NewTask EXCEPT !.pc = "scheduled", !.doc = d]]
            /\ document_store' = IF d \in Registered
                                  THEN [document_store EXCEPT ![d].status = PROCESSING]
                                  ELSE document_store
    /\ UNCHANGED <<rag_services, collections, active_connections, sockets,
                   published, issued, images_folder, cur>>

\* process_document without the check of line 142
process_document_unguarded(d) ==
    /\ cur = 0
    /\ IF d \notin Registered
       THEN UNCHANGED <<document_store, tasks>>
       ELSE IF document_store[d].status = COMPLETED
       THEN UNCHANGED <<document_store, tasks>>
       ELSE /\ \E t \in Tids : tasks[t].pc = "unused"
            /\ tasks' = [tasks EXCEPT ![FreeTid] =
                            [NewTask EXCEPT !.pc = "scheduled", !.doc = d]]
            /\ document_store' = [document_store EXCEPT ![d].status = PROCESSING]
    /\ UNCHANGED <<rag_services, collections, active_connections, sockets,
                   published, issued, images_folder, cur>>

\* documents.py process_document: what the call does
process_document(d) ==
    /\ cur = 0
    /\ IF d \notin Registered
       THEN UNCHANGED <<document_store, tasks>>
       ELSE IF document_store[d].status \in {PROCESSING, COMPLETED}
       THEN UNCHANGED <<document_store, tasks>>
       ELSE /\ \E t \in Tids : tasks[t].pc = "unused"
            /\ tasks' = [tasks EXCEPT ![FreeTid] =
                            [NewTask EXCEPT !.pc = "scheduled", !.doc = d]]
            /\ document_store' = [document_store EXCEPT ![d].status = PROCESSING]
    /\ UNCHANGED <<rag_services, collections, active_connections, sockets,
                   published, issued, images_folder, cur>>

\* documents.py get_document_status: what the call returns
StatusResponse(d) ==
    IF d \notin Registered THEN NotFound("status", d)
    ELSE Resp("status", d, 200, document_store[d].status, "", "", <<>>, <<>>, 0, FALSE)

\* documents.py get_document_status, lines 177-184: the DocumentStatus returned
DocumentStatus(d) ==
    [document_id |-> d, status |-> document_store[d].status,
     processing_time |-> document_store[d].processing_time,
     elements_count |-> document_store[d].elements_count]

\* documents.py get_document_status: the call changes nothing
get_document_status(d) ==
    /\ cur = 0
    /\ UNCHANGED <<document_store, rag_services, collections, active_connections,
                   tasks, sockets, published, issued, images_folder, cur>>

\* documents.py delete_document
delete_document(d) ==
    /\ cur = 0
    /\ IF d \notin Registered
       THEN UNCHANGED <<document_store, rag_services, images_folder>>
       ELSE /\ document_store' = DelKey(document_store, d)
            /\ rag_services' = DelKey(rag_services, d)
            /\ images_folder' = DelKey(images_folder, d)
    /\ UNCHANGED <<collections, active_connections, tasks, sockets, published,
                   issued, cur>>

\* queries.py query_document, lines 28-71: the answer for a document that is
\* not COMPLETED
StatusAnswer(status) ==
    IF status = PENDING
    THEN "Your document is currently queued for processing. Please wait a moment and try again."
    ELSE IF status = PROCESSING
    THEN "Your document is currently being processed. This usually takes 1-2 minutes depending on document complexity. Please try your query again in a moment."
    ELSE "Unfortunately, there was an error processing your document. Please try uploading the document again or contact support if the issue persists."

\* queries.py query_document: status_info["message"] of the same branches
StatusMessage(status) ==
    IF status = PENDING THEN "Document is queued for processing"
    ELSE IF status = PROCESSING THEN "Document is being processed"
    ELSE "Document processing failed"

\* The index a RAGService object answers from: its Qdrant collection doc_<id>
\* (shared by name with every other RAGService of the id) and its own docstore.
IndexOf(d) ==
    IF d \in DOMAIN collections /\ d \in DOMAIN rag_services
                              /\ ~rag_services[d].stale
    THEN collections[d].state
    ELSE "foreign"

\* query_document without the FAILED branch of lines 58-71
QueryResponse_no_failed_branch(d, ok) ==
    IF d \notin Registered THEN NotFound("query", d)
    ELSE IF document_store[d].status \in {PENDING, PROCESSING}
    THEN Resp("query", d, 200, document_store[d].status,
              StatusAnswer(document_store[d].status),
              StatusMessage(document_store[d].status), <<>>, <<>>, 0, FALSE)
    ELSE IF d \notin DOMAIN rag_services
    THEN Resp("query", d, 500, None, "", "RAG service not available", <<>>, <<>>,
              0, FALSE)
    ELSE IF ok
    THEN Resp("query", d, 200, COMPLETED, "generated answer",
              "Query completed successfully", <<"retrieved">>, <<>>, -1, TRUE)
    ELSE Resp("query", d, 200, "error",
              "There was a technical issue processing your query. Please try again or contact support if the problem continues.",
              "Query processing error: Query failed", <<>>, <<>>, 0, TRUE)

\* queries.py query_document; ok = RAGService.query raised nothing
QueryResponse(d, ok) ==
    IF d \notin Registered THEN NotFound("query", d)
    ELSE IF document_store[d].status \in {PENDING, PROCESSING, FAILED}
    THEN Resp("query", d, 200, document_store[d].status,
              StatusAnswer(document_store[d].status),
              StatusMessage(document_store[d].status), <<>>, <<>>, 0, FALSE)
    ELSE IF d \notin DOMAIN rag_services
    THEN Resp("query", d, 500, None, "", "RAG service not available", <<>>, <<>>,
              0, FALSE)
    ELSE IF ok
    THEN Resp("query", d, 200, COMPLETED, "generated answer",
              "Query completed successfully", <<"retrieved">>, <<>>, -1, TRUE)
    ELSE Resp("query", d, 200, "error",
              "There was a technical issue processing your query. Please try again or contact support if the problem continues.",
              "Query processing error: Query failed", <<>>, <<>>, 0, TRUE)

\* queries.py query_document: the call changes nothing
query_document(d, ok) ==
    /\ cur = 0
    /\ UNCHANGED <<document_store, rag_services, collections, active_connections,
                   tasks, sockets, published, issued, images_folder, cur>>

\* documents.py query_document (lines 203-231), the handler that the documents
\* router registers for POST /query/{document_id}
DocumentsQueryResponse(d, ok) ==
    IF d \notin Registered THEN NotFound("query", d)
    ELSE IF document_store[d].status # COMPLETED
    THEN Resp("query", d, 400, None, "", "Document is not processed yet", <<>>, <<>>,
              0, FALSE)
    ELSE IF d \notin DOMAIN rag_services
    THEN Resp("query", d, 500, None, "", "RAG service not found for this document",
              <<>>, <<>>, 0, FALSE)
    ELSE IF ok
    THEN Resp("query", d, 200, None, "generated answer", "", <<"retrieved">>, <<>>,
              -1, TRUE)
    ELSE Resp("query", d, 500, None, "", "Query failed: Query failed", <<>>, <<>>,
              0, TRUE)

\* main.py lines 41-43 with the route decorators of the two routers: the
\* routes of the application that take a query, in the order they are added
Routes ==
    <<[method |-> "POST", path |-> "/api/v1/query/{document_id}",
       endpoint |-> "documents.query_document"],
      [method |-> "POST", path |-> "/api/v1/query",
       endpoint |-> "queries.query_document"],
      [method |-> "POST", path |-> "/api/v1/query/{document_id}",
       endpoint |-> "queries.query_document_by_path"]>>

\* Starlette's router: the first route, in order, that matches the request
Dispatch(method, path) ==
    LET matching == {i \in 1..Len(Routes) :
                        Routes[i].method = method /\ Routes[i].path = path}
    IN Routes[CHOOSE i \in matching : \A j \in matching : i <= j].endpoint

\* The response to POST /api/v1/query/{document_id}; query_document_by_path
\* (queries.py 162-167) puts the id in the request and calls query_document
PathQueryResponse(d, ok) ==
    IF Dispatch("POST", "/api/v1/query/{document_id}") = "documents.query_document"
    THEN DocumentsQueryResponse(d, ok)
    ELSE QueryResponse(d, ok)

\* POST /api/v1/query/{document_id}: the call changes nothing
query_document_by_path(d, ok) ==
    /\ cur = 0
    /\ Dispatch("POST", "/api/v1/query/{document_id}") \in
           {"documents.query_document", "queries.query_document_by_path"}
    /\ UNCHANGED <<document_store, rag_services, collections, active_connections,
                   tasks, sockets, published, issued, images_folder, cur>>


\* =================================================================
\* websocket_status.py: ConnectionManager and broadcast_status_update
\* =================================================================

\* ConnectionManager.disconnect, on the connection map
Disconnect(conns, w, d) ==
    IF d \notin DOMAIN conns THEN conns
    ELSE IF ListRemove(conns[d], w) = <<>> THEN DelKey(conns, d)
    ELSE [conns EXCEPT ![d] = ListRemove(@, w)]

\* What disconnect(w, d) means for the publishes suspended in their for loop
\* over the list of d: w is no longer a subscriber, and when the key is deleted
\* the loop is left iterating a list object that is detached and empty.
AfterDisconnect(tk, w, d) ==
    IF tk.pc = "send_status_update" /\ tk.doc = d
    THEN [tk EXCEPT !.bc.pending = @ \ {w},
                    !.bc.orphan = @ \/ (d \in DOMAIN active_connections /\
                                        d \notin DOMAIN Disconnect(active_connections, w, d))]
    ELSE tk

\* send_status_update lines 45-47: the removal of the failed connections, one
\* by one, until one removal raises
RECURSIVE CleanUp(_, _, _)
CleanUp(conns, d, disconnected) ==
    IF disconnected = <<>> THEN [conns |-> conns, exc |-> <<>>]
    ELSE IF d \notin DOMAIN conns THEN [conns |-> conns, exc |-> KeyErrorMsg]
    ELSE IF Head(disconnected) \notin Range(conns[d])
    THEN [conns |-> conns, exc |-> ValueErrorMsg]
    ELSE CleanUp([conns EXCEPT ![d] = ListRemove(@, Head(disconnected))], d,
                 Tail(disconnected))

\* broadcast_status_update up to the for loop of send_status_update; ret is
\* where the caller goes on when the broadcast returns
Broadcast(tk, store, ret) ==
    IF tk.doc \in DOMAIN store /\ tk.doc \in DOMAIN active_connections
    THEN [tk EXCEPT !.pc = "send_status_update", !.ret = ret,
                    !.bc = [idx |-> 0, disconnected |-> <<>>, orphan |-> FALSE,
                            pending |-> Range(active_connections[tk.doc]),
                            data |-> store[tk.doc].status]]
    ELSE [tk EXCEPT !.pc = ret]

\* broadcast_status_update lines 121-131: the snapshot handed to the notifier
Publish(store, d) ==
    IF d \in DOMAIN store THEN [published EXCEPT ![d] = store[d].status]
    ELSE published

\* The list the for loop of send_status_update iterates
IterList(tk) ==
    IF tk.bc.orphan \/ tk.doc \notin DOMAIN active_connections THEN <<>>
    ELSE active_connections[tk.doc]

\* A task that ended, by returning ("done") or by an exception nothing handles
\* ("crashed"); outcome is the terminal status it gave its document, if any
Ended(tk, pc) == [NewTask EXCEPT !.pc = pc, !.doc = tk.doc, !.outcome = tk.outcome]

\* An exception leaves the try block of process_document_background (or, in
\* its except block, the task)
Throw(tk, msg) ==
    IF tk.handling THEN Ended(tk, "crashed")
    ELSE [tk EXCEPT !.pc = "except", !.exc = msg, !.bc = NoBc]

\* One turn of the for loop of send_status_update, and after the last turn the
\* clean-up of lines 45-47
send_status_update(t) ==
    /\ cur \in {0, t}
    /\ tasks[t].pc = "send_status_update"
    /\ LET tk == tasks[t]
           list == IterList(tk)
       IN
       IF tk.bc.idx < Len(list)
       THEN LET conn == list[tk.bc.idx + 1]
                tk2 == [tk EXCEPT !.bc.idx = @ + 1, !.bc.pending = @ \ {conn}]
            IN
            IF sockets[conn].open
            THEN /\ sockets' = [sockets EXCEPT ![conn].recv = tk.bc.data]
                 /\ tasks' = [tasks EXCEPT ![t] = tk2]
                 /\ cur' = 0
                 /\ UNCHANGED active_connections
            ELSE /\ tasks' = [tasks EXCEPT ![t] =
                                 [tk2 EXCEPT !.bc.disconnected = Append(@, conn)]]
                 /\ cur' = t
                 /\ UNCHANGED <<sockets, active_connections>>
       ELSE LET r == CleanUp(active_connections, tk.doc, tk.bc.disconnected) IN
            /\ active_connections' = r.conns
            /\ tasks' = [tasks EXCEPT ![t] =
                            IF r.exc = <<>> THEN [tk EXCEPT !.pc = tk.ret, !.bc.idx = 0,
                                                            !.bc.disconnected = <<>>]
                            ELSE Throw(tk, r.exc)]
            /\ cur' = IF r.exc # <<>> /\ tk.handling THEN 0 ELSE t
            /\ UNCHANGED sockets
    /\ UNCHANGED <<document_store, rag_services, collections, published, issued, images_folder>>

\* =================================================================
\* documents.py: process_document_background
\* =================================================================

\* lines 24-36: the task starts, marks the document PROCESSING and broadcasts
TaskStart(t) ==
    /\ cur = 0
    /\ tasks[t].pc = "scheduled"
    /\ cur' = t
    /\ LET d == tasks[t].doc IN
       IF d \notin Registered
       THEN /\ tasks' = [tasks EXCEPT ![t] = Throw(@, KeyErrorMsg)]
            /\ UNCHANGED <<document_store, published>>
       ELSE LET store == [document_store EXCEPT ![d].status = PROCESSING] IN
            /\ document_store' = store
            /\ published' = Publish(store, d)
            /\ tasks' = [tasks EXCEPT ![t] =
                   Broadcast([@ EXCEPT !.file = document_store[d].file], store,
                             "DocumentProcessor")]
    /\ UNCHANGED <<rag_services, collections, active_connections, sockets, issued, images_folder>>

\* A stage of the pipeline that touches only the task's own objects: it runs
\* (ok) and the task goes on at `next`, or it raises msg
Stage(t, pc, ok, next, msg) ==
    /\ cur = t
    /\ tasks[t].pc = pc
    /\ tasks' = [tasks EXCEPT ![t] =
           IF ok THEN [@ EXCEPT !.pc = next, !.ran = Append(@, pc)]
           ELSE [Throw(@, msg) EXCEPT !.ran = Append(@, pc), !.raised = pc,
                                      !.faults = @ \cup {<<pc>>}]]
    /\ UNCHANGED <<document_store, active_connections, sockets, published, issued,
                   cur>>

\* line 43: DocumentProcessor(document_id): doc_folder.mkdir(exist_ok=True),
\* then setup_models
DocumentProcessorInit(t, ok) ==
    /\ Stage(t, "DocumentProcessor", ok, "extract_pdf_content", ModelInitError)
    /\ images_folder' = IF tasks[t].doc \in DOMAIN images_folder THEN images_folder
                        ELSE SetKey(images_folder, tasks[t].doc, {})
    /\ UNCHANGED <<collections, rag_services>>

\* document_processor.py process_document line 65: extract_pdf_content
extract_pdf_content(t, ok) ==
    /\ Stage(t, "extract_pdf_content", ok, "process_and_save_images", ExtractError)
    /\ UNCHANGED <<collections, rag_services, images_folder>>

\* What can happen to one image in the loop of process_and_save_images:
\* nothing raises; the Gemini call raises inside _describe_image; decoding or
\* writing the file raises
ImageOutcomes == {"ok", "describe_error", "save_error"}

\* A text made from a unit: a summary, a description, or a placeholder
Derived(unit, text) == [of |-> unit, text |-> text]

\* _describe_image, lines 182-205: the model's text, or the placeholder of the
\* except clause
DescribeImage(i, how) ==
    IF how = "describe_error"
    THEN Derived(<<"image", i>>, "Error processing image: vision error")
    ELSE Derived(<<"image", i>>, "description")

\* lines 166-169: the asyncio.sleep after the image at 1-based position p
Pause(p) ==
    [after |-> p,
     seconds |-> IF p % MAX_IMAGES_PER_REQUEST = 0 THEN 60 ELSE RATE_LIMIT_DELAY]

\* process_and_save_images with a _describe_image that lets its exception out:
\* the except clause of lines 171-180 takes the image
process_and_save_images_describe_raises(t, how) ==
    /\ cur \in {0, t}
    /\ tasks[t].pc = "process_and_save_images"
    /\ IF tasks[t].img < tasks[t].file.images
       THEN LET i == tasks[t].img + 1
                d == tasks[t].doc
                description == DescribeImage(i, how)
                failed == Derived(<<"image", i>>, "Error processing image: save error")
                unsaved == how = "save_error" \/ d \notin DOMAIN images_folder
            IN
            /\ tasks' = [tasks EXCEPT ![t] =
                   IF how = "describe_error"
                   THEN [@ EXCEPT !.img = i,
                                  !.image_descriptions = Append(@, description),
                                  !.image_metadata = Append(@,
                                      [original_index |-> i, filename |-> 0,
                                       description |-> description]),
                                  !.faults = @ \cup {<<"describe", i>>}]
                   ELSE IF unsaved
                   THEN [@ EXCEPT !.img = i,
                                  !.image_descriptions = @ \o <<description, failed>>,
                                  !.image_metadata = Append(@,
                                      [original_index |-> i, filename |-> 0,
                                       description |-> failed]),
                                  !.faults = @ \cup {<<"save", i>>}]
                   ELSE [@ EXCEPT !.img = i,
                                  !.image_descriptions = Append(@, description),
                                  !.image_metadata = Append(@,
                                      [original_index |-> i, filename |-> i,
                                       description |-> description]),
                                  !.pauses = Append(@, Pause(i))]]
            /\ images_folder' = IF how = "ok" /\ ~unsaved
                                THEN [images_folder EXCEPT ![d] = @ \cup {<<t, i>>}]
                                ELSE images_folder
            /\ cur' = IF how = "ok" /\ ~unsaved THEN 0 ELSE t
       ELSE /\ tasks' = [tasks EXCEPT ![t].pc = "create_summaries",
                                      ![t].ran = Append(@, "process_and_save_images")]
            /\ cur' = t
            /\ UNCHANGED images_folder
    /\ UNCHANGED <<document_store, rag_services, collections, active_connections,
                   sockets, published, issued>>

\* document_processor.py process_and_save_images: one image of the loop (lines
\* 138-180; the loop sleeps unless something raised), or the end of the loop.
\* The file is written into doc_folder, which delete_document may have removed
\* during an earlier sleep: open() then raises like any other failure to save.
process_and_save_images(t, how) ==
    /\ cur \in {0, t}
    /\ tasks[t].pc = "process_and_save_images"
    /\ IF tasks[t].img < tasks[t].file.images
       THEN LET i == tasks[t].img + 1
                d == tasks[t].doc
                description == DescribeImage(i, how)
                failed == Derived(<<"image", i>>, "Error processing image: save error")
                unsaved == how = "save_error" \/ d \notin DOMAIN images_folder
            IN
            /\ tasks' = [tasks EXCEPT ![t] =
                   IF unsaved
                   THEN [@ EXCEPT !.img = i,
                                  !.image_descriptions = @ \o <<description, failed>>,
                                  !.image_metadata = Append(@,
                                      [original_index |-> i, filename |-> 0,
                                       description |-> failed]),
                                  !.faults = @ \cup {<<"save", i>>}]
                   ELSE [@ EXCEPT !.img = i,
                                  !.image_descriptions = Append(@, description),
                                  !.image_metadata = Append(@,
                                      [original_index |-> i, filename |-> i,
                                       description |-> description]),
                                  !.faults = IF how = "describe_error"
                                             THEN @ \cup {<<"describe", i>>} ELSE @,
                                  !.pauses = Append(@, Pause(i))]]
            /\ images_folder' = IF unsaved THEN images_folder
                                ELSE [images_folder EXCEPT ![d] = @ \cup {<<t, i>>}]
            /\ cur' = IF unsaved THEN t ELSE 0
       ELSE /\ tasks' = [tasks EXCEPT ![t].pc = "create_summaries",
                                      ![t].ran = Append(@, "process_and_save_images")]
            /\ cur' = t
            /\ UNCHANGED images_folder
    /\ UNCHANGED <<document_store, rag_services, collections, active_connections,
                   sockets, published, issued>>

\* create_summaries lines 241-253: chain.batch returns one summary per input,
\* in the order of the inputs
Summaries(kind, n) == [i \in 1..n |-> Derived(<<kind, i>>, "summary")]

\* document_processor.py process_document line 71: create_summaries
create_summaries(t, ok) ==
    /\ cur = t
    /\ tasks[t].pc = "create_summaries"
    /\ tasks' = [tasks EXCEPT ![t] =
           IF ok
           THEN [@ EXCEPT !.pc = "RAGService", !.ran = Append(@, "create_summaries"),
                          !.text_summaries = Summaries("text", tasks[t].file.texts),
                          !.table_summaries = Summaries("table", tasks[t].file.tables)]
           ELSE [Throw(@, SummaryError) EXCEPT
                    !.ran = Append(@, "create_summaries"),
                    !.raised = "create_summaries",
                    !.faults = @ \cup {<<"create_summaries">>}]]
    /\ UNCHANGED <<document_store, active_connections, sockets, published, issued, images_folder,
                   cur, collections, rag_services>>

\* line 51: RAGService(document_id, processor); setup_vectorstore recreates
\* the collection doc_<id>
RAGServiceInit(t, ok) ==
    /\ Stage(t, "RAGService", ok, "build_vector_database", StoreSetupError)
    /\ collections' = IF ok THEN SetKey(collections, tasks[t].doc,
                                         [state |-> "empty", vectors |-> {}])
                      ELSE collections
    /\ rag_services' = IF ok /\ tasks[t].doc \in DOMAIN rag_services
                       THEN [rag_services EXCEPT ![tasks[t].doc].stale = TRUE]
                       ELSE rag_services
    /\ UNCHANGED images_folder

\* str(uuid.uuid4()) of lines 53, 63 and 73: the retrieval key of unit i
Key(t, kind, i) == <<t, kind, i>>

NoText == Derived(<<>>, "")

\* UnitWrites with the table branch of lines 62-69 left out
UnitWrites_without_tables(t, kind, summaries, n) ==
    IF Len(summaries) = 0 \/ kind = "table" THEN <<>>
    ELSE <<[store |-> "vectorstore",
            entries |-> {[key |-> Key(t, kind, i), content_type |-> kind,
                          page_content |-> summaries[i], filename |-> 0]
                         : i \in 1..Len(summaries)}],
           [store |-> "docstore",
            entries |-> {[key |-> Key(t, kind, i),
                          content |-> [unit |-> <<kind, i>>, filename |-> 0,
                                       description |-> NoText]]
                         : i \in 1..n}]>>

\* UnitWrites without the mset of lines 59 and 69
UnitWrites_without_mset(t, kind, summaries, n) ==
    IF Len(summaries) = 0 THEN <<>>
    ELSE <<[store |-> "vectorstore",
            entries |-> {[key |-> Key(t, kind, i), content_type |-> kind,
                          page_content |-> summaries[i], filename |-> 0]
                         : i \in 1..Len(summaries)}]>>

\* UnitWrites zipping the ids with the units in reverse order
UnitWrites_reversed(t, kind, summaries, n) ==
    IF Len(summaries) = 0 THEN <<>>
    ELSE <<[store |-> "vectorstore",
            entries |-> {[key |-> Key(t, kind, i), content_type |-> kind,
                          page_content |-> summaries[i], filename |-> 0]
                         : i \in 1..Len(summaries)}],
           [store |-> "docstore",
            entries |-> {[key |-> Key(t, kind, i),
                          content |-> [unit |-> <<kind, n + 1 - i>>, filename |-> 0,
                                       description |-> NoText]]
                         : i \in 1..n}]>>

\* lines 52-59 and 62-69: one add_documents with a Document per summary, then
\* one mset with a pair per unit
UnitWrites(t, kind, summaries, n) ==
    IF Len(summaries) = 0 THEN <<>>
    ELSE <<[store |-> "vectorstore",
            entries |-> {[key |-> Key(t, kind, i), content_type |-> kind,
                          page_content |-> summaries[i], filename |-> 0]
                         : i \in 1..Len(summaries)}],
           [store |-> "docstore",
            entries |-> {[key |-> Key(t, kind, i),
                          content |-> [unit |-> <<kind, i>>, filename |-> 0,
                                       description |-> NoText]]
                         : i \in 1..n}]>>

\* lines 75-121: for the j-th description, add_documents of one Document and
\* then mset of one pair
ImageWrites(tk, t, count) ==
    [k \in 1..(2 * count) |->
        LET j == (k + 1) \div 2
            filename == IF j <= Len(tk.image_metadata)
                        THEN tk.image_metadata[j].filename ELSE j
        IN IF k % 2 = 1
           THEN [store |-> "vectorstore",
                 entries |-> {[key |-> Key(t, "image", j), content_type |-> "image",
                               page_content |-> tk.image_descriptions[j],
                               filename |-> filename]}]
           ELSE [store |-> "docstore",
                 entries |-> {[key |-> Key(t, "image", j),
                               content |-> [unit |-> <<"image", j>>,
                                            filename |-> filename,
                                            description |-> tk.image_descriptions[j]]]}]]

\* rag_service.py build_vector_database: the writes it makes, in order, and
\* whether img_ids[i] of line 89 runs off the end of img_ids (one id per image,
\* one turn per description)
BuildWrites(tk, t) ==
    LET images == Len(tk.image_descriptions) > 0 /\ tk.file.images > 0
        count == IF ~images THEN 0
                 ELSE IF Len(tk.image_descriptions) <= tk.file.images
                 THEN Len(tk.image_descriptions) ELSE tk.file.images
    IN [ops |-> UnitWrites(t, "text", tk.text_summaries, tk.file.texts)
                \o UnitWrites(t, "table", tk.table_summaries, tk.file.tables)
                \o ImageWrites(tk, t, count),
        raises |-> images /\ Len(tk.image_descriptions) > tk.file.images]

\* The entries that the first n writes leave in one of the two stores
Written(ops, n, store) ==
    UNION {ops[k].entries : k \in {j \in 1..n : ops[j].store = store}}

\* build_vector_database logging its exception instead of raising it again
build_vector_database_swallowing(t, n) ==
    /\ cur = t
    /\ tasks[t].pc = "build_vector_database"
    /\ LET b == BuildWrites(tasks[t], t) IN
       /\ n \in 0..Len(b.ops)
       /\ tasks' = [tasks EXCEPT ![t] =
              [@ EXCEPT !.pc = "register",
                        !.ran = Append(@, "build_vector_database"),
                        !.store = Written(b.ops, n, "docstore")]]
       /\ collections' = [collections EXCEPT ![tasks[t].doc] =
              [state |-> IF n = Len(b.ops) /\ ~b.raises THEN "complete" ELSE "partial",
               vectors |-> @.vectors \cup Written(b.ops, n, "vectorstore")]]
    /\ UNCHANGED <<document_store, active_connections, sockets, published, issued, images_folder,
                   cur, rag_services>>

\* build_vector_database on a vector store whose collection name leaves out
\* the document id: the vectors go to the collection of every document
build_vector_database_one_collection(t, n) ==
    /\ cur = t
    /\ tasks[t].pc = "build_vector_database"
    /\ LET b == BuildWrites(tasks[t], t) IN
       /\ n \in 0..Len(b.ops)
       /\ tasks' = [tasks EXCEPT ![t] =
              IF n = Len(b.ops) /\ ~b.raises
              THEN [@ EXCEPT !.pc = "register",
                             !.ran = Append(@, "build_vector_database"),
                             !.store = Written(b.ops, n, "docstore")]
              ELSE IF n = Len(b.ops)
              THEN [Throw(@, BuildIndexError) EXCEPT
                       !.ran = Append(@, "img_ids"), !.raised = "img_ids"]
              ELSE [Throw(@, BuildError) EXCEPT
                       !.ran = Append(@, "build_vector_database"),
                       !.raised = "build_vector_database",
                       !.faults = @ \cup {<<"build_vector_database">>}]]
       /\ collections' = [d \in DOMAIN collections |->
              [state |-> IF d # tasks[t].doc THEN collections[d].state
                         ELSE IF n = Len(b.ops) /\ ~b.raises THEN "complete"
                         ELSE "partial",
               vectors |-> collections[d].vectors
                           \cup Written(b.ops, n, "vectorstore")]]
    /\ UNCHANGED <<document_store, active_connections, sockets, published, issued,
                   images_folder, cur, rag_services>>

\* line 52: rag_service.build_vector_database(); n = the writes that are made
\* before one of them raises (all of them: none raises)
build_vector_database(t, n) ==
    /\ cur = t
    /\ tasks[t].pc = "build_vector_database"
    /\ LET b == BuildWrites(tasks[t], t) IN
       /\ n \in 0..Len(b.ops)
       /\ tasks' = [tasks EXCEPT ![t] =
              IF n = Len(b.ops) /\ ~b.raises
              THEN [@ EXCEPT !.pc = "register",
                             !.ran = Append(@, "build_vector_database"),
                             !.store = Written(b.ops, n, "docstore")]
              ELSE IF n = Len(b.ops)
              THEN [Throw(@, BuildIndexError) EXCEPT
                       !.ran = Append(@, "img_ids"), !.raised = "img_ids"]
              ELSE [Throw(@, BuildError) EXCEPT
                       !.ran = Append(@, "build_vector_database"),
                       !.raised = "build_vector_database",
                       !.faults = @ \cup {<<"build_vector_database">>}]]
       /\ collections' = [collections EXCEPT ![tasks[t].doc] =
              [state |-> IF n = Len(b.ops) /\ ~b.raises THEN "complete" ELSE "partial",
               vectors |-> @.vectors \cup Written(b.ops, n, "vectorstore")]]
    /\ UNCHANGED <<document_store, active_connections, sockets, published, issued, images_folder,
                   cur, rag_services>>

\* lines 58-68 without line 55: the document is marked COMPLETED and its
\* service is not stored
Complete_without_register(t) ==
    /\ cur = t
    /\ tasks[t].pc = "register"
    /\ LET d == tasks[t].doc IN
       IF d \notin Registered
       THEN /\ tasks' = [tasks EXCEPT ![t] = Throw(@, KeyErrorMsg)]
            /\ UNCHANGED <<document_store, published>>
       ELSE LET store == [document_store EXCEPT
                             ![d].status = COMPLETED,
                             ![d].processing_time = "elapsed",
                             ![d].elements_count = tasks[t].file]
            IN
            /\ document_store' = store
            /\ published' = Publish(store, d)
            /\ tasks' = [tasks EXCEPT ![t] =
                   Broadcast([@ EXCEPT !.outcome = COMPLETED], store, "return")]
    /\ UNCHANGED <<rag_services, collections, active_connections, sockets, issued,
                   images_folder, cur>>

\* lines 55-68: the service is stored, the document marked COMPLETED, and the
\* completion broadcast
Complete(t) ==
    /\ cur = t
    /\ tasks[t].pc = "register"
    /\ LET d == tasks[t].doc IN
       /\ rag_services' = SetKey(rag_services, d,
                               [stale |-> FALSE, store |-> tasks[t].store])
       /\ IF d \notin Registered
          THEN /\ tasks' = [tasks EXCEPT ![t] = Throw(@, KeyErrorMsg)]
               /\ UNCHANGED <<document_store, published>>
          ELSE LET store == [document_store EXCEPT
                                ![d].status = COMPLETED,
                                ![d].processing_time = "elapsed",
                                ![d].elements_count = tasks[t].file]
               IN
               /\ document_store' = store
               /\ published' = Publish(store, d)
               /\ tasks' = [tasks EXCEPT ![t] =
                      Broadcast([@ EXCEPT !.outcome = COMPLETED], store, "return")]
    /\ UNCHANGED <<collections, active_connections, sockets, issued, images_folder, cur>>

\* the except block without line 78
Except_without_message(t) ==
    /\ cur = t
    /\ tasks[t].pc = "except"
    /\ LET d == tasks[t].doc IN
       IF d \notin Registered
       THEN /\ tasks' = [tasks EXCEPT ![t] = Ended(@, "crashed")]
            /\ cur' = 0
            /\ UNCHANGED <<document_store, published>>
       ELSE LET store == [document_store EXCEPT ![d].status = FAILED] IN
            /\ document_store' = store
            /\ published' = Publish(store, d)
            /\ tasks' = [tasks EXCEPT ![t] =
                   Broadcast([@ EXCEPT !.handling = TRUE, !.outcome = FAILED,
                                       !.exc = <<>>], store, "return")]
            /\ cur' = t
    /\ UNCHANGED <<rag_services, collections, active_connections, sockets, issued, images_folder>>

\* the except block marking every registered document FAILED
Except_failing_every_document(t) ==
    /\ cur = t
    /\ tasks[t].pc = "except"
    /\ LET d == tasks[t].doc IN
       IF d \notin Registered
       THEN /\ tasks' = [tasks EXCEPT ![t] = Ended(@, "crashed")]
            /\ cur' = 0
            /\ UNCHANGED <<document_store, published>>
       ELSE LET store == [b \in Registered |->
                             [document_store[b] EXCEPT
                                 !.status = FAILED,
                                 !.error_message = IF b = d THEN tasks[t].exc ELSE @]]
            IN
            /\ document_store' = store
            /\ published' = Publish(store, d)
            /\ tasks' = [tasks EXCEPT ![t] =
                   Broadcast([@ EXCEPT !.handling = TRUE, !.outcome = FAILED,
                                       !.exc = <<>>], store, "return")]
            /\ cur' = t
    /\ UNCHANGED <<rag_services, collections, active_connections, sockets, issued,
                   images_folder>>

\* lines 75-85: the except block
Except(t) ==
    /\ cur = t
    /\ tasks[t].pc = "except"
    /\ LET d == tasks[t].doc IN
       IF d \notin Registered
       THEN /\ tasks' = [tasks EXCEPT ![t] = Ended(@, "crashed")]
            /\ cur' = 0
            /\ UNCHANGED <<document_store, published>>
       ELSE LET store == [document_store EXCEPT
                             ![d].status = FAILED,
                             ![d].error_message = tasks[t].exc]
            IN
            /\ document_store' = store
            /\ published' = Publish(store, d)
            /\ tasks' = [tasks EXCEPT ![t] =
                   Broadcast([@ EXCEPT !.handling = TRUE, !.outcome = FAILED,
                                       !.exc = <<>>], store, "return")]
            /\ cur' = t
    /\ UNCHANGED <<rag_services, collections, active_connections, sockets, issued, images_folder>>

\* the coroutine returns
Return(t) ==
    /\ cur = t
    /\ tasks[t].pc = "return"
    /\ tasks' = [tasks EXCEPT ![t] = Ended(@, "done")]
    /\ cur' = 0
    /\ UNCHANGED <<document_store, rag_services, collections, active_connections,
                   sockets, published, issued, images_folder>>


\* =================================================================
\* websocket_status.py: websocket_endpoint
\* =================================================================

\* The except clauses of lines 102-106: manager.disconnect, and the handler ends
HandlerDisconnect(w) ==
    /\ active_connections' = Disconnect(active_connections, w, sockets[w].doc)
    /\ tasks' = [t \in Tids |-> AfterDisconnect(tasks[t], w, sockets[w].doc)]
    /\ sockets' = [sockets EXCEPT ![w].pc = "disconnected", ![w].open = FALSE]

\* lines 53-68: manager.connect and the initial status message.  Connections
\* are numbered in the order in which they are accepted.
websocket_connect(w, d) ==
    /\ cur = 0
    /\ sockets[w].pc = "idle"
    /\ \A v \in Sockets : v < w => sockets[v].pc # "idle"
    /\ active_connections' =
           SetKey(active_connections, d,
                  Append(IF d \in DOMAIN active_connections
                         THEN active_connections[d] ELSE <<>>, w))
    /\ sockets' = [sockets EXCEPT ![w] =
           [NewSocket EXCEPT !.pc = "polling", !.doc = d, !.open = TRUE,
                             !.recv = IF d \in Registered
                                      THEN document_store[d].status ELSE None]]
    /\ UNCHANGED <<document_store, rag_services, collections, tasks, published,
                   issued, images_folder, cur>>

\* lines 72-86 and 100: one turn of the polling loop, up to the await of the
\* status_change message or the sleep
websocket_poll(w) ==
    /\ cur = 0
    /\ sockets[w].pc = "polling"
    /\ LET d == sockets[w].doc IN
       IF d \in Registered /\ document_store[d].status # sockets[w].last_status
       THEN IF sockets[w].open
            THEN /\ sockets' = [sockets EXCEPT
                                   ![w].pc = "sent",
                                   ![w].current_status = document_store[d].status,
                                   ![w].recv = document_store[d].status]
                 /\ UNCHANGED <<active_connections, tasks>>
            ELSE HandlerDisconnect(w)
       ELSE UNCHANGED <<sockets, active_connections, tasks>>
    /\ UNCHANGED <<document_store, rag_services, collections, published, issued,
                   images_folder, cur>>

\* lines 87-100: after the status_change message went out; for a terminal
\* status the final_status message
websocket_after_send(w) ==
    /\ cur = 0
    /\ sockets[w].pc = "sent"
    /\ IF sockets[w].current_status \in {COMPLETED, FAILED}
       THEN IF sockets[w].open
            THEN /\ sockets' = [sockets EXCEPT
                                   ![w].pc = "final",
                                   ![w].last_status = sockets[w].current_status,
                                   ![w].recv = sockets[w].current_status]
                 /\ UNCHANGED <<active_connections, tasks>>
            ELSE HandlerDisconnect(w)
       ELSE /\ sockets' = [sockets EXCEPT
                              ![w].pc = "polling",
                              ![w].last_status = sockets[w].current_status,
                              ![w].current_status = None]
            /\ UNCHANGED <<active_connections, tasks>>
    /\ UNCHANGED <<document_store, rag_services, collections, published, issued,
                   images_folder, cur>>

\* line 98: break; the handler returns and the server closes the socket
websocket_return(w) ==
    /\ cur = 0
    /\ sockets[w].pc = "final"
    /\ sockets' = [sockets EXCEPT ![w].pc = "returned", ![w].open = FALSE]
    /\ UNCHANGED <<document_store, rag_services, collections, active_connections,
                   tasks, published, issued, images_folder, cur>>

\* the client goes away: every later send on the socket raises
client_close(w) ==
    /\ cur = 0
    /\ sockets[w].pc \in {"polling", "sent", "final"}
    /\ sockets[w].open
    /\ sockets' = [sockets EXCEPT ![w].open = FALSE]
    /\ UNCHANGED <<document_store, rag_services, collections, active_connections,
                   tasks, published, issued, images_folder, cur>>

\* =================================================================
Next ==
    \/ \E f \in Files, valid \in BOOLEAN :
           Cardinality(issued) < MaxUploads /\ upload_document(f, valid)
    \/ \E d \in Docs : process_document(d)
    \/ \E d \in Docs : get_document_status(d)
    \/ \E d \in Docs : delete_document(d)
    \/ \E d \in Docs, ok \in BOOLEAN : query_document(d, ok)
    \/ \E d \in Docs, ok \in BOOLEAN : query_document_by_path(d, ok)
    \/ \E t \in Tids : TaskStart(t)
    \/ \E t \in Tids : send_status_update(t)
    \/ \E t \in Tids, ok \in BOOLEAN : DocumentProcessorInit(t, ok)
    \/ \E t \in Tids, ok \in BOOLEAN : extract_pdf_content(t, ok)
    \/ \E t \in Tids, how \in ImageOutcomes : process_and_save_images(t, how)
    \/ \E t \in Tids, ok \in BOOLEAN : create_summaries(t, ok)
    \/ \E t \in Tids, ok \in BOOLEAN : RAGServiceInit(t, ok)
    \/ \E t \in Tids, n \in 0..MaxWrites : build_vector_database(t, n)
    \/ \E t \in Tids : Complete(t)
    \/ \E t \in Tids : Except(t)
    \/ \E t \in Tids : Return(t)
    \/ \E w \in 1..NumSockets, d \in Docs : websocket_connect(w, d)
    \/ \E w \in Sockets : websocket_poll(w)
    \/ \E w \in Sockets : websocket_after_send(w)
    \/ \E w \in Sockets : websocket_return(w)
    \/ \E w \in Sockets : client_close(w)

Spec == Init /\ [][Next]_vars

\* -----------------------------------------------------------------
\* One ingestion run and its observers: the program after upload_document of
\* a PDF with images and process_document of it, as document 1; from there the
\* ingestion task, queries and the notifier with MaxObservers websocket clients.
InitNotify ==
    /\ document_store = SetKey(<<>>, 1,
           [file |-> CHOOSE f \in Files : f.images = MaxImages, status |-> PROCESSING,
            processing_time |-> None, elements_count |-> NoCount,
            error_message |-> <<>>])
    /\ rag_services = <<>>
    /\ collections = <<>>
    /\ active_connections = <<>>
    /\ tasks = [t \in Tids |-> IF t = 1 THEN [NewTask EXCEPT !.pc = "scheduled", !.doc = 1]
                                ELSE NewTask]
    /\ sockets = [w \in Sockets |-> NewSocket]
    /\ published = [d \in Docs |-> None]
    /\ issued = {1}
    /\ images_folder = <<>>
    /\ cur = 0

NextNotify ==
    \/ \E ok \in BOOLEAN : query_document(1, ok)
    \/ \E t \in Tids : TaskStart(t)
    \/ \E t \in Tids : send_status_update(t)
    \/ \E t \in Tids, ok \in BOOLEAN : DocumentProcessorInit(t, ok)
    \/ \E t \in Tids, ok \in BOOLEAN : extract_pdf_content(t, ok)
    \/ \E t \in Tids, how \in ImageOutcomes : process_and_save_images(t, how)
    \/ \E t \in Tids, ok \in BOOLEAN : create_summaries(t, ok)
    \/ \E t \in Tids, ok \in BOOLEAN : RAGServiceInit(t, ok)
    \/ \E t \in Tids, n \in 0..MaxWrites : build_vector_database(t, n)
    \/ \E t \in Tids : Complete(t)
    \/ \E t \in Tids : Except(t)
    \/ \E t \in Tids : Return(t)
    \/ \E w \in Sockets : websocket_connect(w, 1)
    \/ \E w \in Sockets : websocket_poll(w)
    \/ \E w \in Sockets : websocket_after_send(w)
    \/ \E w \in Sockets : websocket_return(w)
    \/ \E w \in Sockets : client_close(w)

SpecNotify == InitNotify /\ [][NextNotify]_vars


\* -----------------------------------------------------------------
\* Several documents: every endpoint and the ingestion tasks, for NumDocs
\* uploads, with no websocket client (so no publish enters the for loop of
\* send_status_update).
NextDocs ==
    \/ \E f \in Files, valid \in BOOLEAN : upload_document(f, valid)
    \/ \E d \in Docs : process_document(d)
    \/ \E d \in Docs : get_document_status(d)
    \/ \E d \in Docs : delete_document(d)
    \/ \E d \in Docs, ok \in BOOLEAN : query_document(d, ok)
    \/ \E d \in Docs, ok \in BOOLEAN : query_document_by_path(d, ok)
    \/ \E t \in Tids : TaskStart(t)
    \/ \E t \in Tids, ok \in BOOLEAN : DocumentProcessorInit(t, ok)
    \/ \E t \in Tids, ok \in BOOLEAN : extract_pdf_content(t, ok)
    \/ \E t \in Tids, how \in ImageOutcomes : process_and_save_images(t, how)
    \/ \E t \in Tids, ok \in BOOLEAN : create_summaries(t, ok)
    \/ \E t \in Tids, ok \in BOOLEAN : RAGServiceInit(t, ok)
    \/ \E t \in Tids, n \in 0..MaxWrites : build_vector_database(t, n)
    \/ \E t \in Tids : Complete(t)
    \/ \E t \in Tids : Except(t)
    \/ \E t \in Tids : Return(t)

SpecDocs == Init /\ [][NextDocs]_vars

\* -----------------------------------------------------------------
\* The ingestion of one document, unit by unit: the program after
\* upload_document of a PDF with up to MaxUnits texts, tables and images and
\* process_document of it, as document 1; from there the ingestion task, the
\* queries and process_document again, with no websocket client (so no
\* publish enters the for loop of send_status_update).
AllFiles == [texts : 0..MaxUnits, tables : 0..MaxUnits, images : 0..MaxUnits]

InitIngest ==
    /\ \E f \in AllFiles :
           document_store = SetKey(<<>>, 1,
               [file |-> f, status |-> PROCESSING, processing_time |-> None,
                elements_count |-> NoCount, error_message |-> <<>>])
    /\ rag_services = <<>>
    /\ collections = <<>>
    /\ active_connections = <<>>
    /\ tasks = [t \in Tids |-> IF t = 1 THEN [NewTask EXCEPT !.pc = "scheduled", !.doc = 1]
                                ELSE NewTask]
    /\ sockets = [w \in Sockets |-> NewSocket]
    /\ published = [d \in Docs |-> None]
    /\ issued = {1}
    /\ images_folder = <<>>
    /\ cur = 0

NextIngest ==
    \/ process_document(1)
    \/ \E ok \in BOOLEAN : query_document(1, ok)
    \/ \E ok \in BOOLEAN : query_document_by_path(1, ok)
    \/ \E t \in Tids : TaskStart(t)
    \/ \E t \in Tids, ok \in BOOLEAN : DocumentProcessorInit(t, ok)
    \/ \E t \in Tids, ok \in BOOLEAN : extract_pdf_content(t, ok)
    \/ \E t \in Tids, how \in ImageOutcomes : process_and_save_images(t, how)
    \/ \E t \in Tids, ok \in BOOLEAN : create_summaries(t, ok)
    \/ \E t \in Tids, ok \in BOOLEAN : RAGServiceInit(t, ok)
    \/ \E t \in Tids, n \in 0..MaxWrites : build_vector_database(t, n)
    \/ \E t \in Tids : Complete(t)
    \/ \E t \in Tids : Except(t)
    \/ \E t \in Tids : Return(t)

SpecIngest == InitIngest /\ [][NextIngest]_vars

\* -----------------------------------------------------------------
\* Two ingestion runs side by side: the program after upload_document of two
\* PDFs of one text each and process_document of both, as documents 1 and 2;
\* from there the two ingestion tasks, queries and status requests on both
\* documents and the notifier with one websocket client for each document.
InitFrame ==
    /\ document_store = [d \in Docs |->
           [file |-> [texts |-> 1, tables |-> 0, images |-> 0], status |-> PROCESSING,
            processing_time |-> None, elements_count |-> NoCount,
            error_message |-> <<>>]]
    /\ rag_services = <<>>
    /\ collections = <<>>
    /\ active_connections = <<>>
    /\ tasks = [t \in Tids |-> IF t \in Docs
                                THEN [NewTask EXCEPT !.pc = "scheduled", !.doc = t]
                                ELSE NewTask]
    /\ sockets = [w \in Sockets |-> NewSocket]
    /\ published = [d \in Docs |-> None]
    /\ issued = Docs
    /\ images_folder = <<>>
    /\ cur = 0

\* A step of process_document_background, run t
TaskStep(t) ==
    \/ TaskStart(t)
    \/ send_status_update(t)
    \/ \E ok \in BOOLEAN : DocumentProcessorInit(t, ok)
    \/ \E ok \in BOOLEAN : extract_pdf_content(t, ok)
    \/ \E how \in ImageOutcomes : process_and_save_images(t, how)
    \/ \E ok \in BOOLEAN : create_summaries(t, ok)
    \/ \E ok \in BOOLEAN : RAGServiceInit(t, ok)
    \/ \E n \in 0..MaxWrites : build_vector_database(t, n)
    \/ Complete(t)
    \/ Except(t)
    \/ Return(t)

NextFrame ==
    \/ \E d \in Docs : get_document_status(d)
    \/ \E d \in Docs, ok \in BOOLEAN : query_document(d, ok)
    \/ \E d \in Docs, ok \in BOOLEAN : query_document_by_path(d, ok)
    \/ \E t \in Tids : TaskStep(t)
    \/ \E w \in Sockets \cap Docs : websocket_connect(w, w)
    \/ \E w \in Sockets : websocket_poll(w)
    \/ \E w \in Sockets : websocket_after_send(w)
    \/ \E w \in Sockets : websocket_return(w)
    \/ \E w \in Sockets : client_close(w)

SpecFrame == InitFrame /\ [][NextFrame]_vars

\* =================================================================
\* The claims
\* =================================================================
Terminal == {COMPLETED, FAILED}

\* a background task that has started and has not ended
Running(t) == tasks[t].pc \notin {"unused", "scheduled", "done", "crashed"}

\* C1: no step takes a registered document's status from COMPLETED or FAILED
\* to PENDING or PROCESSING, the only step out of PENDING is to PROCESSING, and
\* the only steps out of PROCESSING are to COMPLETED or FAILED.
C1_Monotonic ==
    [][\A d \in Docs :
          (d \in Registered /\ d \in DOMAIN document_store') =>
              /\ document_store[d].status \in Terminal =>
                     document_store'[d].status \notin {PENDING, PROCESSING}
              /\ document_store[d].status = PENDING =>
                     document_store'[d].status \in {PENDING, PROCESSING}
              /\ document_store[d].status = PROCESSING =>
                     document_store'[d].status \in {PROCESSING, COMPLETED, FAILED}
      ]_vars

\* C2: for every document id at most one ingestion task is running at any
\* time.
C2_OneRunPerDocument ==
    \A d \in Docs : Cardinality({t \in Tids : Running(t) /\ tasks[t].doc = d}) <= 1

\* C3: process_document on a document that is PROCESSING or COMPLETED answers
\* with that same status and changes neither the registry, nor rag_services,
\* nor the background tasks.
C3_ProcessIsNoOp ==
    /\ [](\A d \in Registered :
              document_store[d].status \in {PROCESSING, COMPLETED} =>
                  /\ ProcessResponse(d).code = 200
                  /\ ProcessResponse(d).status = document_store[d].status)
    /\ [][\A d \in Docs :
              (/\ d \in Registered
               /\ document_store[d].status \in {PROCESSING, COMPLETED}
               /\ process_document(d))
              => UNCHANGED <<document_store, rag_services, tasks>>]_vars

\* a second process_document call can arrive while the first one's task is
\* still waiting to start
C3_Witness ==
    \E d \in Registered, t \in Tids :
        /\ cur = 0
        /\ document_store[d].status = PROCESSING
        /\ tasks[t].pc = "scheduled" /\ tasks[t].doc = d
        /\ ProcessResponse(d).status = PROCESSING

\* The message of the exception a stage raises, before any wrapping
RaisedMessage(stage) ==
    IF stage = "DocumentProcessor" THEN "setup_models error"
    ELSE IF stage = "extract_pdf_content" THEN "partition_pdf error"
    ELSE IF stage = "create_summaries" THEN "summarization error"
    ELSE IF stage = "RAGService" THEN "qdrant error"
    ELSE IF stage = "img_ids" THEN "list index out of range"
    ELSE "add_documents error"

\* C4: once a stage of the ingestion has raised, no further stage runs, and
\* the except block leaves the document (if still registered) FAILED with an
\* error_message that holds the message of what was raised.
C4_AbortToFailed ==
    [][\A t \in Tids :
          /\ (tasks[t].raised # None /\ Running(t) /\ Running(t)') =>
                 tasks'[t].ran = tasks[t].ran
          /\ (/\ tasks[t].pc = "except" /\ tasks[t].raised # None
              /\ tasks'[t].pc # "except"
              /\ tasks[t].doc \in Registered)
             => /\ Last(tasks[t].ran) = tasks[t].raised
                /\ document_store'[tasks[t].doc].status = FAILED
                /\ document_store'[tasks[t].doc].error_message # <<>>
                /\ Last(document_store'[tasks[t].doc].error_message) =
                       RaisedMessage(tasks[t].raised)
      ]_vars

\* a run whose summarization raised, after its except block
C4_Witness ==
    \E t \in Tids :
        /\ tasks[t].raised = "create_summaries" /\ tasks[t].handling
        /\ tasks[t].doc \in Registered
        /\ document_store[tasks[t].doc].status = FAILED
        /\ document_store[tasks[t].doc].error_message = SummaryError

C6_RunsToTerminal ==
    \A t \in Tids :
        tasks[t].pc \in {"done", "crashed"} => tasks[t].outcome \in Terminal

\* C7: whenever control is back with the event loop and no task is in the
\* middle of a step, the status of every document that has left PENDING has
\* been handed to the notifier.
C7_TransitionPublished ==
    \A d \in Registered :
        (cur = 0 /\ document_store[d].status # PENDING) =>
            published[d] = document_store[d].status

\* C8: when the for loop of a publish is over, no observer that was subscribed
\* from the start of the publish to its end has been passed over.
C8_PublishReachesAll ==
    \A t \in Tids :
        tasks[t].pc # "send_status_update" => tasks[t].bc.pending = {}

\* C9: one websocket never receives a message carrying PENDING or PROCESSING
\* after a message carrying COMPLETED or FAILED.
C9_InOrderPerObserver ==
    [][\A w \in Sockets :
          sockets[w].recv \in Terminal =>
              sockets'[w].recv \notin {PENDING, PROCESSING}]_vars

\* C10: a query on a registered document that is PENDING, PROCESSING or FAILED
\* returns normally, without retrieval or generation, with no sources, no
\* images, confidence 0 and the document's status; answer and message differ
\* between the three states, and the PENDING message says queued.
C10_StatusAwareNonAnswer ==
    \A d \in Registered :
        document_store[d].status \in {PENDING, PROCESSING, FAILED} =>
            \A ok \in BOOLEAN :
                /\ QueryResponse(d, ok).code = 200
                /\ ~QueryResponse(d, ok).invoked
                /\ QueryResponse(d, ok).sources = <<>>
                /\ QueryResponse(d, ok).related_images = <<>>
                /\ QueryResponse(d, ok).confidence_score = 0
                /\ QueryResponse(d, ok).status = document_store[d].status
                /\ \A other \in {PENDING, PROCESSING, FAILED} \ {document_store[d].status} :
                       /\ QueryResponse(d, ok).answer # StatusAnswer(other)
                       /\ QueryResponse(d, ok).message # StatusMessage(other)
                /\ document_store[d].status = PENDING =>
                       QueryResponse(d, ok).message = "Document is queued for processing"

\* a query can arrive for a document whose ingestion failed
C10_Witness ==
    \E d \in Registered :
        /\ cur = 0
        /\ document_store[d].status = FAILED
        /\ QueryResponse(d, TRUE).status = FAILED


\* C11: both query entry points, POST /query and POST /query/{document_id},
\* answer a query on a registered document that is not COMPLETED with a normal
\* result (code 200) that carries the guidance of the document's state.
C11_GuidanceOnEveryEntryPoint ==
    \A d \in Registered :
        document_store[d].status # COMPLETED =>
            \A ok \in BOOLEAN :
                /\ QueryResponse(d, ok).code = 200
                /\ QueryResponse(d, ok).message = StatusMessage(document_store[d].status)
                /\ PathQueryResponse(d, ok).code = 200
                /\ PathQueryResponse(d, ok).message =
                       StatusMessage(document_store[d].status)

\* C12: a query on a COMPLETED document returns normally on both entry points
\* whether or not retrieval or generation raises; when it raises, the result
\* has no sources, no images and the status "error".
C12_QueryNeverFails ==
    \A d \in Registered :
        document_store[d].status = COMPLETED =>
            \A ok \in BOOLEAN :
                /\ QueryResponse(d, ok).code = 200
                /\ PathQueryResponse(d, ok).code = 200
                /\ ~ok => /\ QueryResponse(d, ok).status = "error"
                          /\ QueryResponse(d, ok).sources = <<>>
                          /\ QueryResponse(d, ok).related_images = <<>>
                          /\ PathQueryResponse(d, ok).sources = <<>>
                          /\ PathQueryResponse(d, ok).related_images = <<>>

\* C13: in the state an accepted upload leaves, document-status on the new id
\* returns PENDING with processing_time and elements_count unset, whatever the
\* other documents and their ingestion tasks are doing.
C13_UploadThenStatus ==
    [][\A d \in Docs :
          (d \notin Registered /\ d \in DOMAIN document_store') =>
              /\ StatusResponse(d)'.code = 200
              /\ DocumentStatus(d)' = [document_id |-> d, status |-> PENDING,
                                       processing_time |-> None,
                                       elements_count |-> NoCount]
      ]_vars

\* a document was uploaded while the ingestion of another one is under way,
\* and a status call can be served
C13_Witness ==
    \E d \in Registered, e \in Registered, t \in Tids :
        /\ d # e /\ cur = 0
        /\ DocumentStatus(d).status = PENDING
        /\ tasks[t].doc = e /\ Running(t)

\* C14: document-status and process-document on an id that is not in the
\* registry answer 404, and such a call changes neither the registry, nor
\* rag_services, nor the background tasks.
C14_UnknownIdNotFound ==
    /\ [](\A d \in Docs \ Registered :
              /\ StatusResponse(d).code = 404
              /\ ProcessResponse(d).code = 404)
    /\ [][\A d \in Docs :
              (d \notin Registered /\ (process_document(d) \/ get_document_status(d)))
              => UNCHANGED <<document_store, rag_services, tasks>>]_vars

\* an id that was deleted, next to a registered document, with a task slot
\* free for a process-document call to take
C14_Witness ==
    \E d \in issued \ Registered, e \in Registered, t \in Tids :
        /\ cur = 0
        /\ tasks[t].pc = "unused"
        /\ ProcessResponse(d).code = 404


\* The document can be queried: COMPLETED, with its service registered
Queryable(d) ==
    /\ d \in Registered /\ document_store[d].status = COMPLETED
    /\ d \in DOMAIN rag_services /\ d \in DOMAIN collections

\* C15: for a document that an ingestion run has made COMPLETED, texts + tables
\* + images of elements_count is the number of vector entries of its index and
\* the number of docstore entries of its service.
C15_CountsMatchIndex ==
    \A d \in Docs :
        Queryable(d) =>
            LET n == document_store[d].elements_count.texts
                     + document_store[d].elements_count.tables
                     + document_store[d].elements_count.images
            IN /\ Cardinality(collections[d].vectors) = n
               /\ Cardinality(rag_services[d].store) = n

\* a completed document with no text, one table and the most images
C15_Witness ==
    /\ Queryable(1)
    /\ document_store[1].elements_count =
           [texts |-> 0, tables |-> 1, images |-> MaxUnits]
    /\ Cardinality(collections[1].vectors) = 1 + MaxUnits

\* C16: for a document that can be queried, the retrieval keys of the vector
\* entries and the keys of the docstore entries are the same set.
C16_NoOrphans ==
    \A d \in Docs :
        Queryable(d) =>
            {v.key : v \in collections[d].vectors} =
                {e.key : e \in rag_services[d].store}

\* a document that can be queried after an earlier run of it was aborted
C16_Witness ==
    \E t \in Tids :
        /\ Queryable(1)
        /\ collections[1].vectors # {}
        /\ tasks[t].pc = "done" /\ tasks[t].outcome = FAILED
        /\ \E u \in Tids : u # t /\ tasks[u].doc = 1 /\ tasks[u].outcome = COMPLETED

\* C17: for a document that can be queried, every text and table unit has a
\* vector entry whose searchable text is that unit's summary, and the docstore
\* entry under the key of a summary's vector entry holds the unit that the
\* summary was made from.
C17_SummariesPairedByPosition ==
    \A d \in Docs :
        Queryable(d) =>
            /\ \A kind \in {"text", "table"} :
                   \A i \in 1..(IF kind = "text"
                                THEN document_store[d].elements_count.texts
                                ELSE document_store[d].elements_count.tables) :
                       \E v \in collections[d].vectors :
                           /\ v.content_type = kind
                           /\ v.page_content = Derived(<<kind, i>>, "summary")
                           /\ \E e \in rag_services[d].store : e.key = v.key
            /\ \A v \in collections[d].vectors, e \in rag_services[d].store :
                   (v.content_type \in {"text", "table"} /\ e.key = v.key) =>
                       v.page_content = Derived(e.content.unit, "summary")

\* a completed document with the most texts and the most tables
C17_Witness ==
    /\ Queryable(1)
    /\ document_store[1].elements_count.texts = MaxUnits
    /\ document_store[1].elements_count.tables = MaxUnits
    /\ Cardinality(rag_services[1].store) >= 2 * MaxUnits

\* the only things that went wrong in the run are description calls
DescribeOnly(tk) ==
    tk.faults # {} /\ \A f \in tk.faults : f[1] = "describe"

\* the only things that went wrong in the run are confined to single images
ImageOnly(tk) ==
    tk.faults # {} /\ \A f \in tk.faults : f[1] \in {"describe", "save"}

\* C18: a run in which nothing went wrong but description calls never enters
\* the except block; when it has left the try block its document is COMPLETED,
\* every image is indexed under its saved file with its description (the
\* placeholder for an image whose call failed), and every text and table is
\* indexed with its summary.
C18_DescriptionFailureTolerated ==
    \A t \in Tids :
        DescribeOnly(tasks[t]) =>
            /\ tasks[t].pc # "except" /\ ~tasks[t].handling
            /\ tasks[t].pc = "return" =>
                   /\ tasks[t].outcome = COMPLETED
                   /\ Queryable(tasks[t].doc)
                   /\ \A i \in 1..tasks[t].file.images :
                          \E v \in collections[tasks[t].doc].vectors :
                              /\ v.key = Key(t, "image", i)
                              /\ v.filename = i
                              /\ v.page_content.of = <<"image", i>>
                              /\ v.page_content.text =
                                     IF <<"describe", i>> \in tasks[t].faults
                                     THEN "Error processing image: vision error"
                                     ELSE "description"
                   /\ \A i \in 1..tasks[t].file.texts :
                          \E v \in collections[tasks[t].doc].vectors :
                              /\ v.key = Key(t, "text", i)
                              /\ v.page_content = Derived(<<"text", i>>, "summary")
                   /\ \A i \in 1..tasks[t].file.tables :
                          \E v \in collections[tasks[t].doc].vectors :
                              /\ v.key = Key(t, "table", i)
                              /\ v.page_content = Derived(<<"table", i>>, "summary")

\* a run over one text and two images, the first of which could not be
\* described, has completed
C18_Witness ==
    \E t \in Tids :
        /\ tasks[t].pc = "return" /\ tasks[t].outcome = COMPLETED
        /\ tasks[t].faults = {<<"describe", 1>>}
        /\ tasks[t].file.texts = 1 /\ tasks[t].file.images = 2

\* C19: a run in which nothing went wrong but failures confined to single
\* images (description, decoding, writing the file) never enters the except
\* block, so it does not end FAILED.
C19_ImageFailureContained ==
    \A t \in Tids :
        ImageOnly(tasks[t]) => (tasks[t].pc # "except" /\ ~tasks[t].handling)

\* C20: a run in which nothing went wrong but the summary of a unit never
\* enters the except block, so it does not end FAILED.
C20_SummaryFailureContained ==
    \A t \in Tids :
        tasks[t].faults = {<<"create_summaries">>} =>
            (tasks[t].pc # "except" /\ ~tasks[t].handling)

\* C21: a document that is COMPLETED records as elements_count the numbers of
\* texts, tables and images of its file, and its folder under IMAGES_FOLDER
\* holds as many image files as elements_count.images, also when the run
\* that completed came after a failed run of the same document.
C21_CountsAndFiles ==
    \A d \in Registered :
        document_store[d].status = COMPLETED =>
            /\ document_store[d].elements_count = document_store[d].file
            /\ d \in DOMAIN images_folder
            /\ Cardinality(images_folder[d]) = document_store[d].elements_count.images

\* C24: once delete_document has removed a document, nothing of it is left:
\* no rag_services entry, no collection doc_<id> and no image folder.
C24_DeleteLeavesNothing ==
    \A d \in issued \ Registered :
        /\ d \notin DOMAIN rag_services
        /\ d \notin DOMAIN collections
        /\ d \notin DOMAIN images_folder

\* C25: the ingestion task of a document that was deleted while it ran does
\* not end by an exception nothing handles, and no step of a task gives a
\* deleted id an entry of document_store again.
C25_TaskToleratesDelete ==
    /\ [](\A t \in Tids : tasks[t].doc \in issued \ Registered => tasks[t].pc # "crashed")
    /\ [][\A t \in Tids : cur' = t => DOMAIN document_store' \subseteq Registered]_vars

\* C26: a document is COMPLETED or FAILED exactly when its processing_time is
\* set.
C26_DurationIffTerminal ==
    \A d \in Registered :
        document_store[d].status \in Terminal <=> document_store[d].processing_time # None

\* C30: a registered document that is COMPLETED has an entry in rag_services,
\* so neither query handler answers a query on it with its "RAG service not
\* available" / "RAG service not found" error.
C30_CompletedHasService ==
    \A d \in Registered :
        document_store[d].status = COMPLETED =>
            /\ d \in DOMAIN rag_services
            /\ \A ok \in BOOLEAN :
                   /\ QueryResponse(d, ok).message # "RAG service not available"
                   /\ QueryResponse(d, ok).code # 500
                   /\ DocumentsQueryResponse(d, ok).message #
                          "RAG service not found for this document"

\* a document is COMPLETED and answers a query, while the task that made it
\* so is suspended in its completion broadcast
C30_Witness ==
    \E d \in Registered :
        /\ document_store[d].status = COMPLETED
        /\ cur = 0
        /\ QueryResponse(d, TRUE).code = 200
        /\ QueryResponse(d, TRUE).message = "Query completed successfully"
        /\ \E t \in Tids : /\ tasks[t].doc = d
                          /\ tasks[t].pc = "send_status_update"
                          /\ tasks[t].outcome = COMPLETED

\* C27: after every image the loop of process_and_save_images has been
\* through, in order, it has slept once: 60 seconds after the image at a
\* position that is a multiple of MAX_IMAGES_PER_REQUEST, RATE_LIMIT_DELAY
\* seconds after any other, also when the image failed.
C27_OnePausePerImage ==
    \A t \in Tids :
        /\ Len(tasks[t].pauses) = tasks[t].img
        /\ \A p \in 1..Len(tasks[t].pauses) :
               /\ tasks[t].pauses[p].after = p
               /\ tasks[t].pauses[p].seconds =
                      IF p % MAX_IMAGES_PER_REQUEST = 0 THEN 60 ELSE RATE_LIMIT_DELAY

\* =================================================================
\* rag_service.py: RAGService.query
\* =================================================================

\* The hits of one similarity search in the collection doc_<d>: keys of its
\* vectors, best first, no vector twice; which vectors and in which order is
\* the embedding's matter
Hits(d) ==
    LET keys == {v.key : v \in collections[d].vectors}
        most == IF Cardinality(keys) < MaxHits THEN Cardinality(keys) ELSE MaxHits
    IN UNION {{s \in [1..n -> keys] : \A i, j \in 1..n : s[i] = s[j] => i = j}
              : n \in 0..most}

\* The Python object the docstore holds under a key: the partition_pdf element
\* of a text or a table (lines 59, 69), the dict of an image (lines 112-120)
Parent(entry) ==
    [key |-> entry.key, unit |-> entry.content.unit,
     type |-> IF entry.content.unit[1] = "image" THEN "dict"
              ELSE IF entry.content.unit[1] = "table" THEN "Table"
              ELSE "CompositeElement",
     unique_id |-> entry.content.filename]

\* MultiVectorRetriever.invoke(question, k=limit) on the retriever of the
\* service of d, lines 135 and 259: the docstore values under the doc_id of
\* the hits, in the order of the hits, without the ids the docstore does not
\* hold.  honours = the retriever passes k on to the similarity search; when
\* it does not, every hit of the search is used.
RECURSIVE Parents(_, _)
Parents(store, keys) ==
    IF keys = <<>> THEN <<>>
    ELSE LET held == {e \in store : e.key = Head(keys)} IN
         (IF held = {} THEN <<>> ELSE <<Parent(CHOOSE e \in held : TRUE)>>)
         \o Parents(store, Tail(keys))

Retrieve(d, hits, limit, honours) ==
    Parents(rag_services[d].store,
            IF honours /\ limit < Len(hits) THEN SubSeq(hits, 1, limit) ELSE hits)

\* hasattr(doc, 'metadata') and isinstance(doc.metadata, dict), lines 165-167:
\* an element has an ElementMetadata object, a dict has no such attribute
HasMetadata(doc) == doc.type \in {"CompositeElement", "Table", "Document"}

MetadataIsDict(doc) == doc.type = "Document"

\* _parse_documents, lines 158-182: the key of the partition a retrieved
\* object is put in
PartitionOf(doc) ==
    LET ctype == IF doc.type = "str" THEN "text"
                 ELSE IF HasMetadata(doc)
                 THEN (IF MetadataIsDict(doc) THEN doc.content_type ELSE "text")
                 ELSE "text"
    IN IF ctype = "table" THEN "tables"
       ELSE IF ctype = "image" THEN "images"
       ELSE "texts"

_parse_documents(docs) ==
    [p \in {"texts", "tables", "images"} |->
        SelectSeq(docs, LAMBDA doc : PartitionOf(doc) = p)]

\* _build_sources, lines 304-340: one SourceInfo per object, partition by
\* partition; content_type is the key of the partition unless the object is a
\* str
SourcesOf(p, docs) ==
    [i \in 1..Len(docs) |->
        [content_type |-> IF docs[i].type = "str" THEN "text" ELSE p,
         key |-> docs[i].key, unit |-> docs[i].unit]]

_build_sources(parsed_docs) ==
    SourcesOf("texts", parsed_docs["texts"])
    \o SourcesOf("tables", parsed_docs["tables"])
    \o SourcesOf("images", parsed_docs["images"])

\* _get_related_images, lines 253-302: a second retrieval with k = 2 *
\* max_results, the dicts with a 'path' among its results, the first
\* max_results of them as ImageInfo; ImageInfo rejects an image_id or filename
\* of None (schemas.py 38-43), and the except clause then returns []
_get_related_images(d, hits, max_results, honours) ==
    LET all_docs == Retrieve(d, hits, max_results * 2, honours)
        image_paths == SelectSeq(all_docs, LAMBDA doc : doc.type = "dict")
        first == IF max_results < Len(image_paths)
                 THEN SubSeq(image_paths, 1, max_results) ELSE image_paths
    IN IF \E i \in 1..Len(first) : first[i].unique_id = 0 THEN <<>>
       ELSE [i \in 1..Len(first) |->
                [image_id |-> first[i].unique_id, key |-> first[i].key,
                 unit |-> first[i].unit]]

\* RAGService.query, lines 131-153, for a question whose similarity search
\* gives hits: the retrieved objects, the sources and the related images of
\* its QueryResponse
query(d, hits, max_results, honours) ==
    LET docs == Retrieve(d, hits, max_results, honours)
        parsed_docs == _parse_documents(docs)
    IN [docs |-> docs,
        sources |-> _build_sources(parsed_docs),
        related_images |-> _get_related_images(d, hits, max_results, honours)]

\* max_results of the requests
MaxResults == 1..MaxK

\* The content_type under which build_vector_database put the unit of a key
\* into the collection of d
IndexedAs(d, key) == (CHOOSE v \in collections[d].vectors : v.key = key).content_type

\* C22: a query with max_results = k on a COMPLETED document returns at most
\* k sources, and at most as many related images as there are images among
\* the objects that were retrieved for its answer and its sources.
C22_ResultsBounded ==
    \A d \in Docs : Queryable(d) =>
        \A hits \in Hits(d), k \in MaxResults, honours \in BOOLEAN :
            LET r == query(d, hits, k, honours) IN
            /\ Len(r.sources) <= k
            /\ Len(r.related_images) <=
                   Cardinality({i \in 1..Len(r.docs) : r.docs[i].unit[1] = "image"})

\* C28: a query on a COMPLETED document puts every retrieved object in the
\* partition of the type under which its unit was indexed (texts for text,
\* tables for table, images for image), and every source has that type, or
\* the key of that partition, as its content_type.
C28_PartitionByIndexedType ==
    \A d \in Docs : Queryable(d) =>
        \A hits \in Hits(d), k \in MaxResults, honours \in BOOLEAN :
            LET r == query(d, hits, k, honours)
                PartitionFor(type) == IF type = "table" THEN "tables"
                                      ELSE IF type = "image" THEN "images"
                                      ELSE "texts"
            IN
            /\ \A i \in 1..Len(r.docs) :
                   PartitionOf(r.docs[i]) = PartitionFor(IndexedAs(d, r.docs[i].key))
            /\ \A i \in 1..Len(r.sources) :
                   r.sources[i].content_type \in
                       {IndexedAs(d, r.sources[i].key),
                        PartitionFor(IndexedAs(d, r.sources[i].key))}

\* The document for which the unit of a retrieval key was inserted: the
\* document of the ingestion run that made the key
InsertedFor(key) == tasks[key[1]].doc

\* C23: the collection and the docstore of a document hold only what runs of
\* that document inserted, a query on a document returns only sources and
\* images inserted for it, and a step of an ingestion run leaves the
\* collection and the service of every other document as they were.
C23_IndexIsolated ==
    /\ [](\A d \in Docs :
            /\ d \in DOMAIN collections =>
                   \A v \in collections[d].vectors : InsertedFor(v.key) = d
            /\ d \in DOMAIN rag_services =>
                   \A e \in rag_services[d].store : InsertedFor(e.key) = d
            /\ Queryable(d) =>
                   \A hits \in Hits(d), k \in MaxResults, honours \in BOOLEAN :
                       LET r == query(d, hits, k, honours) IN
                       /\ \A i \in 1..Len(r.sources) :
                              InsertedFor(r.sources[i].key) = d
                       /\ \A i \in 1..Len(r.related_images) :
                              InsertedFor(r.related_images[i].key) = d)
    /\ [][\A t \in Tids :
            tasks[t].pc \notin {"unused", "done", "crashed"} /\ tasks'[t] # tasks[t] =>
                \A b \in Docs \ {tasks[t].doc} :
                    /\ b \in DOMAIN collections <=> b \in DOMAIN collections'
                    /\ b \in DOMAIN collections => collections'[b] = collections[b]
                    /\ b \in DOMAIN rag_services <=> b \in DOMAIN rag_services'
                    /\ b \in DOMAIN rag_services => rag_services'[b] = rag_services[b]]_vars

\* two documents are COMPLETED, each with vectors in its collection, and a
\* query on the first returns a source and a related image
C23_Witness ==
    /\ \A d \in Docs : Queryable(d) /\ collections[d].vectors # {}
                                    /\ rag_services[d].store # {}
    /\ \E hits \in Hits(1) :
           /\ Len(query(1, hits, 1, TRUE).sources) = 1
           /\ Len(query(1, hits, 1, TRUE).related_images) = 1

\* The entry of b in a mapping is the same before and after the step
SameEntry(before, after, b) ==
    /\ b \in DOMAIN before <=> b \in DOMAIN after
    /\ b \in DOMAIN before => after[b] = before[b]

\* C29: a step of process_document_background for a document leaves the
\* document_store entry, the rag_services entry and the list of websocket
\* subscribers of every other document unchanged, and a query or a status
\* request changes no document_store entry.
C29_IngestionFrame ==
    [][/\ \A t \in Tids : TaskStep(t) =>
              \A b \in Docs \ {tasks[t].doc} :
                  /\ SameEntry(document_store, document_store', b)
                  /\ SameEntry(rag_services, rag_services', b)
                  /\ SameEntry(active_connections, active_connections', b)
       /\ (\E d \in Docs, ok \in BOOLEAN :
               \/ query_document(d, ok)
               \/ query_document_by_path(d, ok)
               \/ get_document_status(d))
          => document_store' = document_store]_vars

\* the run of document 1 has failed and the run of document 2 has completed
\* while a websocket client is subscribed to each of the two documents
C29_Witness ==
    /\ document_store[1].status = FAILED
    /\ Queryable(2)
    /\ \A d \in Docs : d \in DOMAIN active_connections

\* C31: when the exception that brought process_document_background into its
\* except block was raised by broadcast_status_update (no stage of the
\* pipeline raised), the except block leaves document_store as it was: the
\* status and the error_message of the document stay what they were before
\* the broadcast.
C31_NotifierErrorKeepsState ==
    [][\A t \in Tids :
          (/\ tasks[t].pc = "except" /\ tasks[t].raised = None
           /\ tasks[t].doc \in Registered
           /\ tasks'[t].pc # "except")
          => document_store' = document_store]_vars

\* C32: a send_status_update that is left is left by returning to its
\* caller, never by a KeyError or ValueError of its clean-up, whatever the
\* websocket handlers disconnected while it was suspended in a send.
C32_PublishNeverRaises ==
    [][\A t \in Tids :
          (tasks[t].pc = "send_status_update" /\ tasks'[t].pc # "send_status_update")
          => tasks'[t].pc = tasks[t].ret]_vars

\* C36: a websocket whose handler has ended, by returning after final_status
\* or through one of its except clauses, is in no list of active_connections.
C36_EndedHandlerUnsubscribed ==
    \A w \in Sockets :
        sockets[w].pc \in {"returned", "disconnected"} =>
            \A d \in DOMAIN active_connections : w \notin Range(active_connections[d])

\* C37: a document has an error_message exactly when its status is FAILED.
C37_ErrorMessageIffFailed ==
    \A d \in Registered :
        document_store[d].status = FAILED <=> document_store[d].error_message # <<>>

\* C34: when process_and_save_images has returned for a PDF with at least
\* one image, image_descriptions and image_metadata have one element per
\* image, and element i of each is that of image i.
C34_OneDescriptionPerImage ==
    \A t \in Tids :
        (/\ tasks[t].file.images >= 1
         /\ tasks[t].ran # <<>>
         /\ Last(tasks[t].ran) = "process_and_save_images")
        => /\ Len(tasks[t].image_descriptions) = tasks[t].file.images
           /\ Len(tasks[t].image_metadata) = tasks[t].file.images
           /\ \A i \in 1..tasks[t].file.images :
                  /\ tasks[t].image_descriptions[i].of = <<"image", i>>
                  /\ tasks[t].image_metadata[i].original_index = i

\* -----------------------------------------------------------------
\* One ingestion run and its observers under the scheduling of the event
\* loop: a coroutine that can go on (a task at one of its awaits or not yet
\* started, a handler whose sleep or send is over) is run again.
Scheduling ==
    /\ \A t \in Tids : SF_vars(TaskStep(t))
    /\ \A w \in Sockets : /\ SF_vars(websocket_poll(w))
                          /\ SF_vars(websocket_after_send(w))
                          /\ SF_vars(websocket_return(w))

SpecNotifyFair == InitNotify /\ [][NextNotify]_vars /\ Scheduling

\* The handler of websocket w is in its polling loop for document d
Observing(w, d) == sockets[w].doc = d /\ sockets[w].pc \in {"polling", "sent"}

\* C35: an observer in its polling loop, with its client connected, of a
\* registered document that is COMPLETED or FAILED is eventually sent
\* final_status, after which its handler returns (unless the client goes
\* away first); the handler sends final_status once; and ready_for_queries
\* of that message is true exactly when the document is COMPLETED.
C35_FinalStatusOnce ==
    /\ \A w \in Sockets :
           (/\ Observing(w, 1) /\ sockets[w].open
            /\ 1 \in Registered /\ document_store[1].status \in Terminal)
           ~> (sockets[w].pc = "returned" \/ ~sockets[w].open)
    /\ [][\A w \in Sockets :
             /\ sockets[w].pc \in {"final", "returned"}
                => sockets'[w].pc \in {"final", "returned"}
             /\ (sockets[w].pc = "sent" /\ sockets'[w].pc = "final")
                => (sockets'[w].recv = COMPLETED
                    <=> document_store[sockets[w].doc].status = COMPLETED)]_vars

\* C33: every id that has an entry in rag_services has an entry in
\* document_store.
C33_ServicesOfRegistered == DOMAIN rag_services \subseteq Registered

====
